---- MODULE Spec2Model ----
(***************************************************************************)
(* Model of jokebot.py: a five-node LangGraph StateGraph (show_menu,       *)
(* writer, critic, update_category, exit_bot) run by graph.invoke() over   *)
(* a JokeState, with the console and the joke source as nondeterministic   *)
(* inputs.  Console lines and joke texts are sequences of one-character    *)
(* strings, so that strip(), lower(), int() and len() are computed.        *)
(***************************************************************************)
EXTENDS Integers, Sequences, FiniteSets, TLC

VARIABLES
    jokes,          \* JokeState.jokes: sequence of Joke records
    jokes_choice,   \* JokeState.jokes_choice
    category,       \* JokeState.category
    language,       \* JokeState.language
    quit,           \* JokeState.quit
    next,           \* node the engine has scheduled ("END" after exit_bot)
    lastNode,       \* node that ran last ("START" before the first step)
    step,           \* number of node steps completed by graph.invoke
    status,         \* "running", "done", or "out_of_steps" (GraphRecursionError)
    lastLine,       \* last line read from the console by input()
    printed,        \* last message printed by a node
    menuLog,        \* raw lines read at the menu prompt (first MaxLog of them)
    catLog,         \* entries rejected by the update_category step running or just run
    fetched         \* texts get_joke has returned so far

vars == <<jokes, jokes_choice, category, language, quit, next, lastNode, step,
          status, lastLine, printed, menuLog, catLog, fetched>>

state == <<jokes, jokes_choice, category, language, quit>>

(***************************************************************************)
(* Bounds of the exploration.                                              *)
(***************************************************************************)
MaxLog == 3         \* menu lines recorded in menuLog
MaxRetries == 2     \* rejected entries explored per update_category step

(***************************************************************************)
(* Program constants.                                                      *)
(***************************************************************************)
recursion_limit == 100
MinApprovedLen == 40

\* the list of update_category with another third entry
categories_other == <<"neutral", "chuck", "any">>

categories == <<"neutral", "chuck", "all">>
concrete == <<"neutral", "chuck">>
menu_options == <<"n", "c", "q">>

(***************************************************************************)
(* Strings.                                                                *)
(***************************************************************************)
Str(n, c) == [i \in 1..n |-> c]

IsSpace(c) == c \in {" ", "\t"}

LowerChar(c) ==
    CASE c = "N" -> "n"
      [] c = "C" -> "c"
      [] c = "Q" -> "q"
      [] c = "X" -> "x"
      [] OTHER -> c

lower(s) == [i \in 1..Len(s) |-> LowerChar(s[i])]

RECURSIVE lstrip(_)
lstrip(s) == IF s # <<>> /\ IsSpace(Head(s)) THEN lstrip(Tail(s)) ELSE s

RECURSIVE rstrip(_)
rstrip(s) ==
    IF s # <<>> /\ IsSpace(s[Len(s)]) THEN rstrip(SubSeq(s, 1, Len(s) - 1)) ELSE s

strip(s) == rstrip(lstrip(s))

Digits == {"0", "1", "2", "3", "4", "5", "6", "7", "8", "9"}

DigitVal(c) ==
    CASE c = "0" -> 0 [] c = "1" -> 1 [] c = "2" -> 2 [] c = "3" -> 3
      [] c = "4" -> 4 [] c = "5" -> 5 [] c = "6" -> 6 [] c = "7" -> 7
      [] c = "8" -> 8 [] c = "9" -> 9

RECURSIVE DecVal(_)
DecVal(s) == IF s = <<>> THEN 0
             ELSE 10 * DecVal(SubSeq(s, 1, Len(s) - 1)) + DigitVal(s[Len(s)])

AllDigits(s) == s # <<>> /\ \A i \in 1..Len(s) : s[i] \in Digits

\* int(s): ok = FALSE stands for ValueError
int(s) ==
    LET t == strip(s)
        signed == t # <<>> /\ Head(t) \in {"+", "-"}
        body == IF signed THEN Tail(t) ELSE t
    IN  IF AllDigits(body)
        THEN [ok |-> TRUE,
              val |-> IF signed /\ Head(t) = "-" THEN 0 - DecVal(body) ELSE DecVal(body)]
        ELSE [ok |-> FALSE, val |-> 0]

(***************************************************************************)
(* Inputs.                                                                 *)
(***************************************************************************)
MenuLines == {<<"n">>, <<"c">>, <<"q">>, <<" ", "Q", " ">>, <<"x">>}
CategoryLines == {<<"x">>, <<"5">>, <<"-", "1">>, <<"0">>, <<"1">>, <<" ", "2">>}
TextLens == {39, 40, 50}
Texts == {Str(n, "a") : n \in TextLens}
Truncated == << <<"...">> >>

(***************************************************************************)
(* Data model.                                                             *)
(***************************************************************************)
\* Joke(text=..., category=...): approved defaults to False
Joke(text, cat) == [text |-> text, category |-> cat, approved |-> FALSE]

\* a node's return value: a function from some of the JokeState fields
NoUpdate == <<>>

(***************************************************************************)
(* Nodes.                                                                  *)
(***************************************************************************)
\* show_menu without the reset of an invalid user_input
coerce_propagate(line) ==
    LET user_input == lower(strip(line))
    IN  IF user_input = <<>> THEN "n" ELSE user_input[1]

\* the value of user_input after strip().lower() and the membership test
coerce(line) ==
    LET user_input == lower(strip(line))
    IN  IF \A i \in 1..Len(menu_options) : user_input # <<menu_options[i]>>
        THEN "n"
        ELSE user_input[1]

show_menu(line) ==
    [update |-> [jokes_choice |-> coerce(line)],
     printed |-> IF lower(strip(line)) \in {<<menu_options[i]>> : i \in 1..Len(menu_options)}
                 THEN "" ELSE "Invalid input. Defaulting to 'n'."]

\* writer_node without the resolution of "all"
resolve_none(cat, pick) == cat

\* pick is the outcome of random.choice(["neutral", "chuck"])
resolve(cat, pick) == IF cat = "all" THEN pick ELSE cat

\* writer_node returning the category it resolved along with the joke
writer_node_sets_category(cat, pick, text) ==
    [update |-> [jokes |-> <<Joke(text, resolve(cat, pick))>>,
                 category |-> resolve(cat, pick)],
     printed |-> "Writer wrote a joke in category"]

\* text is the outcome of get_joke(language, category)
writer_node(cat, pick, text) ==
    [update |-> [jokes |-> <<Joke(text, resolve(cat, pick))>>],
     printed |-> "Writer wrote a joke in category"]

\* critic_node with the threshold off by one
approves_strict(text) == ~(Len(text) <= MinApprovedLen)

approves(text) == ~(Len(text) < MinApprovedLen)

\* critic_node reviewing a placeholder joke when the history is empty
critic_node_placeholder(js) ==
    IF js = <<>>
    THEN [update |-> [jokes |-> <<Joke(<<>>, "neutral")>>],
          printed |-> "Critic: This joke is too short, rejecting it."]
    ELSE LET last_joke == js[Len(js)]
         IN  [update |-> [jokes |-> <<[last_joke EXCEPT !.approved = approves(last_joke.text)]>>],
              printed |-> IF approves(last_joke.text)
                          THEN "Critic: Approved this joke!"
                          ELSE "Critic: This joke is too short, rejecting it."]

critic_node(js) ==
    IF js = <<>>
    THEN [update |-> NoUpdate, printed |-> ""]
    ELSE LET last_joke == js[Len(js)]
         IN  [update |-> [jokes |-> <<[last_joke EXCEPT !.approved = approves(last_joke.text)]>>],
              printed |-> IF approves(last_joke.text)
                          THEN "Critic: Approved this joke!"
                          ELSE "Critic: This joke is too short, rejecting it."]

\* update_category without the lower bound of the range test
in_range_no_lower(selection) == selection < Len(categories)

in_range(selection) == 0 <= selection /\ selection < Len(categories)

\* Python list indexing: a negative index counts from the end
PyIndex(list, i) == IF i < 0 THEN list[Len(list) + i + 1] ELSE list[i + 1]

\* one pass of the while loop of update_category on the entry read
update_category(line) ==
    LET selection == int(line)
    IN  IF ~selection.ok
        THEN [accepted |-> FALSE, update |-> NoUpdate, printed |-> "Please enter a number."]
        ELSE IF ~in_range(selection.val)
        THEN [accepted |-> FALSE, update |-> NoUpdate, printed |-> "Invalid selection."]
        ELSE [accepted |-> TRUE,
              update |-> [category |-> PyIndex(categories, selection.val)],
              printed |-> "Category changed"]

\* exit_bot returning no update
exit_bot_no_update ==
    [update |-> NoUpdate, printed |-> "Exiting bot. Thanks for laughing!"]

exit_bot ==
    [update |-> [quit |-> TRUE], printed |-> "Exiting bot. Thanks for laughing!"]

\* route_choice sending the choice q back to the writer
route_choice_q_writer(choice) ==
    IF choice = "n" THEN "writer"
    ELSE IF choice = "c" THEN "update_category"
    ELSE IF choice = "q" THEN "writer"
    ELSE "exit_bot"

\* route_choice without its branch for the choice c
route_choice_no_c(choice) ==
    IF choice = "n" THEN "writer"
    ELSE IF choice = "q" THEN "exit_bot"
    ELSE "exit_bot"

route_choice(choice) ==
    IF choice = "n" THEN "writer"
    ELSE IF choice = "c" THEN "update_category"
    ELSE IF choice = "q" THEN "exit_bot"
    ELSE "exit_bot"

(***************************************************************************)
(* The graph and the engine.                                               *)
(***************************************************************************)
Nodes == {"show_menu", "writer", "critic", "update_category", "exit_bot"}

\* the graph with the edge writer -> show_menu in place of writer -> critic
edge_skip_critic(node, choice) ==
    CASE node = "show_menu" -> route_choice(choice)
      [] node = "writer" -> "show_menu"
      [] node = "critic" -> "show_menu"
      [] node = "update_category" -> "show_menu"
      [] node = "exit_bot" -> "END"

\* the graph with the edge exit_bot -> show_menu in place of exit_bot -> END
edge_exit_to_menu(node, choice) ==
    CASE node = "show_menu" -> route_choice(choice)
      [] node = "writer" -> "critic"
      [] node = "critic" -> "show_menu"
      [] node = "update_category" -> "show_menu"
      [] node = "exit_bot" -> "show_menu"

\* the node scheduled after `node` has run, given the merged jokes_choice
edge(node, choice) ==
    CASE node = "show_menu" -> route_choice(choice)
      [] node = "writer" -> "critic"
      [] node = "critic" -> "show_menu"
      [] node = "update_category" -> "show_menu"
      [] node = "exit_bot" -> "END"

\* the channel of a JokeState field declared without a reducer keeps the last
\* value written to it
LastValue(old, new) == new

\* JokeState with jokes declared as Annotated[List[Joke], operator.add]
Channel_jokes_add(field, old, u) ==
    IF field \in DOMAIN u
    THEN IF field = "jokes" THEN old \o u[field] ELSE LastValue(old, u[field])
    ELSE old

Channel(field, old, u) == IF field \in DOMAIN u THEN LastValue(old, u[field]) ELSE old

\* the engine testing the limit after one step more
CanRun_inclusive(node) == status = "running" /\ next = node /\ step <= recursion_limit

\* a step may start while the run has not used up its recursion_limit
CanRun(node) == status = "running" /\ next = node /\ step < recursion_limit

\* the engine merges the update of `node` and schedules the next node
Commit(node, u) ==
    /\ jokes' = Channel("jokes", jokes, u)
    /\ jokes_choice' = Channel("jokes_choice", jokes_choice, u)
    /\ category' = Channel("category", category, u)
    /\ language' = Channel("language", language, u)
    /\ quit' = Channel("quit", quit, u)
    /\ lastNode' = node
    /\ step' = step + 1
    /\ next' = edge(node, jokes_choice')
    /\ status' = IF next' = "END" THEN "done" ELSE "running"

Init ==
    /\ jokes = <<>>
    /\ jokes_choice = "n"
    /\ category = "neutral"
    /\ language = "en"
    /\ quit = FALSE
    /\ next = "show_menu"
    /\ lastNode = "START"
    /\ step = 0
    /\ status = "running"
    /\ lastLine = <<>>
    /\ printed = ""
    /\ menuLog = <<>>
    /\ catLog = <<>>
    /\ fetched = {}

ShowMenu ==
    \E line \in MenuLines :
        /\ CanRun("show_menu")
        /\ Commit("show_menu", show_menu(line).update)
        /\ printed' = show_menu(line).printed
        /\ lastLine' = line
        /\ menuLog' = IF menuLog # Truncated /\ Len(menuLog) < MaxLog
                      THEN Append(menuLog, line)
                      ELSE Truncated
        /\ catLog' = <<>>
        /\ UNCHANGED fetched

Writer ==
    \E text \in Texts, pick \in {concrete[i] : i \in 1..Len(concrete)} :
        /\ CanRun("writer")
        /\ Commit("writer", writer_node(category, pick, text).update)
        /\ printed' = writer_node(category, pick, text).printed
        /\ fetched' = fetched \cup {text}
        /\ UNCHANGED <<lastLine, menuLog, catLog>>

Critic ==
    /\ CanRun("critic")
    /\ Commit("critic", critic_node(jokes).update)
    /\ printed' = critic_node(jokes).printed
    /\ UNCHANGED <<lastLine, menuLog, catLog, fetched>>

\* update_category has started and is waiting for another entry
InLoop == next = "update_category" /\ catLog # <<>>

\* one read of the category prompt: the node completes on an accepted entry
\* and stays in its loop on a rejected one
UpdateCategory ==
    \E line \in CategoryLines :
        /\ status = "running" /\ next = "update_category"
        /\ InLoop \/ step < recursion_limit
        /\ lastLine' = line
        /\ printed' = update_category(line).printed
        /\ IF update_category(line).accepted
           THEN /\ Commit("update_category", update_category(line).update)
                /\ catLog' = catLog
           ELSE /\ Len(catLog) < MaxRetries
                /\ catLog' = Append(catLog, line)
                /\ UNCHANGED <<jokes, jokes_choice, category, language, quit,
                               next, lastNode, step, status>>
        /\ UNCHANGED <<menuLog, fetched>>

ExitBot ==
    /\ CanRun("exit_bot")
    /\ Commit("exit_bot", exit_bot.update)
    /\ printed' = exit_bot.printed
    /\ UNCHANGED <<lastLine, menuLog, catLog, fetched>>

\* graph.invoke raises GraphRecursionError: the limit is used up and a node
\* is still scheduled
OutOfSteps ==
    /\ status = "running" /\ next \in Nodes /\ ~InLoop
    /\ step = recursion_limit
    /\ status' = "out_of_steps"
    /\ UNCHANGED <<jokes, jokes_choice, category, language, quit, next, lastNode,
                   step, lastLine, printed, menuLog, catLog, fetched>>

Next == ShowMenu \/ Writer \/ Critic \/ UpdateCategory \/ ExitBot \/ OutOfSteps

Spec == Init /\ [][Next]_vars

\* main: graph.invoke has returned a final state, so the summary loop is reached
invoke_returned == status = "done"

(***************************************************************************)
(* critic_node called on a JokeState of any history, its update merged.    *)
(***************************************************************************)
MaxJokes == 2       \* records in the histories critic_node is called on

JokeRecords == [text : Texts, category : {"neutral", "chuck"}, approved : BOOLEAN]

Histories == UNION {[1..n -> JokeRecords] : n \in 0..MaxJokes}

CriticInit ==
    /\ jokes \in Histories
    /\ jokes_choice \in {menu_options[i] : i \in 1..Len(menu_options)}
    /\ category \in {categories[i] : i \in 1..Len(categories)}
    /\ language = "en"
    /\ quit = FALSE
    /\ next = "critic"
    /\ lastNode = "START"
    /\ step = 0
    /\ status = "running"
    /\ lastLine = <<>>
    /\ printed = ""
    /\ menuLog = <<>>
    /\ catLog = <<>>
    /\ fetched = {}

CriticNext == Critic

CriticSpec == CriticInit /\ [][CriticNext]_vars

(***************************************************************************)
(* Properties.                                                             *)
(***************************************************************************)
\* the step taken is a completed run of `node`
Ran(node) == step' = step + 1 /\ lastNode' = node

Stopped == status # "running"

Fifty == Str(50, "a")

\* C1: every writer step makes jokes one record longer, and no step of any
\* kind makes jokes shorter.
C1_AppendOnly ==
    [][/\ Ran("writer") => Len(jokes') = Len(jokes) + 1
       /\ Len(jokes') >= Len(jokes)]_vars

\* C2: with the menu inputs n, n, q and a joke source that returns the same
\* 50-character text on every call, the run halts with quit set and a history
\* of exactly two jokes, both approved and both of category "neutral".
C2_EndToEnd ==
    (status = "done" /\ menuLog = << <<"n">>, <<"n">>, <<"q">> >> /\ fetched = {Fifty})
        => /\ quit
           /\ Len(jokes) = 2
           /\ \A i \in 1..Len(jokes) :
                  jokes[i].approved /\ jokes[i].category = "neutral"

\* C3 as stated: whenever the engine has stopped, the exit step has run and
\* quit is set.
C3_OnlyQuitStops == Stopped => (lastNode = "exit_bot" /\ quit)

\* C3 amended: the engine stops either after the exit step, which the menu
\* choice q led to and which set quit, or with GraphRecursionError once
\* recursion_limit steps have run, with quit still unset.
C3_StopsByQuitOrCap ==
    Stopped =>
        \/ /\ status = "done"
           /\ lastNode = "exit_bot" /\ jokes_choice = "q" /\ quit
        \/ /\ status = "out_of_steps"
           /\ step = recursion_limit /\ lastNode # "exit_bot" /\ ~quit

C3_Witness == status = "out_of_steps" /\ ~quit /\ jokes # <<>>

\* the menu step has just run and the user chose quit
MenuQuit == lastNode = "show_menu" /\ jokes_choice = "q"

\* C4 as stated: after any menu step at which the user entered q, the exit
\* step runs next and the run halts with quit set.
C4_QuitAlwaysExits ==
    [][MenuQuit => (Ran("exit_bot") /\ quit' /\ status' = "done")]_vars

\* C4 amended: after a menu step at which the user entered q and which was not
\* the step that used up recursion_limit, the exit step is scheduled, it is the
\* only step that can follow, and it halts the run with quit set; a run is
\* never longer than recursion_limit steps.
C4_QuitExitsBelowCap ==
    /\ [](MenuQuit /\ step < recursion_limit => next = "exit_bot" /\ status = "running")
    /\ [][MenuQuit /\ step < recursion_limit
            => (Ran("exit_bot") /\ quit' /\ status' = "done")]_vars
    /\ [](step <= recursion_limit)

C4_Witness == status = "done" /\ quit /\ lastNode = "exit_bot" /\ step > 3

Last(seq) == seq[Len(seq)]

\* C5: the critic step sets approved on the last record to TRUE exactly when
\* the text of that record has at least 40 characters (39: FALSE, 40: TRUE).
C5_ApprovalThreshold ==
    [][(Ran("critic") /\ jokes # <<>>)
         => /\ jokes' # <<>>
            /\ Last(jokes').text = Last(jokes).text
            /\ Last(jokes').approved = (Len(Last(jokes).text) >= 40)]_vars

C5_Witness ==
    lastNode = "critic" /\ jokes # <<>> /\ Len(Last(jokes).text) = 40 /\ Last(jokes).approved

ChoiceValues == {"n", "c", "q", "next", "category", "quit", "x", "N", ""}

Branch(choice) ==
    CASE choice = "n" -> "writer"
      [] choice = "c" -> "update_category"
      [] OTHER -> "exit_bot"

\* C6: the branch function maps n to writer, c to update_category, q and every
\* other value to exit_bot, and the node scheduled after a menu step is the
\* one it returns for the stored choice: never show_menu or critic.
C6_RoutingTotal ==
    /\ \A v \in ChoiceValues : route_choice(v) = Branch(v)
    /\ (lastNode = "show_menu" /\ status = "running")
          => /\ next = Branch(jokes_choice)
             /\ next \in {"writer", "update_category", "exit_bot"}

C6_Witness ==
    lastNode = "show_menu" /\ jokes_choice = "c" /\ next = "update_category" /\ step > 1

\* the pairs (node, node that runs right after it)
Follows ==
    {<<"START", "show_menu">>, <<"show_menu", "writer">>,
     <<"show_menu", "update_category">>, <<"show_menu", "exit_bot">>,
     <<"writer", "critic">>, <<"critic", "show_menu">>,
     <<"update_category", "show_menu">>}

\* C7 as stated: the steps of a run follow one another only along menu ->
\* writer / category-update / exit, writer -> critic, critic -> menu,
\* category-update -> menu, starting at menu; every step but exit is followed
\* by a step, so a run ends only after exit.
C7_StepOrder ==
    /\ [][step' = step + 1 => <<lastNode, lastNode'>> \in Follows]_vars
    /\ [](status = "running" => <<lastNode, next>> \in Follows)
    /\ [](Stopped => lastNode = "exit_bot")

\* C7 amended: the same order of steps, except that the step that uses up
\* recursion_limit is followed by no step, whichever node it is; exit is
\* followed by no step.
C7_StepOrderUntilCap ==
    /\ [][step' = step + 1 => <<lastNode, lastNode'>> \in Follows]_vars
    /\ [](status = "running" => <<lastNode, next>> \in Follows)
    /\ [](Stopped => (lastNode = "exit_bot" \/ step = recursion_limit))
    /\ [](lastNode = "exit_bot" => status = "done")

C7_Witness == lastNode = "critic" /\ next = "show_menu" /\ step > 3

\* what the menu prompt makes of each line
MenuChoice(line) ==
    CASE line = <<"n">> -> "n"
      [] line = <<"c">> -> "c"
      [] line = <<"q">> -> "q"
      [] line = <<" ", "Q", " ">> -> "q"
      [] OTHER -> "n"

\* C8: the menu step stores n unless the trimmed, lower-cased line is n, c or
\* q, which it stores; jokes_choice is one of n, c, q in every state.
C8_MenuCoercion ==
    /\ [][Ran("show_menu") => jokes_choice' = MenuChoice(lastLine')]_vars
    /\ [](jokes_choice \in {"n", "c", "q"})

C8_Witness ==
    lastNode = "show_menu" /\ next = "writer" /\ lastLine = <<"x">> /\ jokes_choice = "n"

\* C9: every record of the history has the category "neutral" or "chuck",
\* never "all"; the writer stores the session category on the new record, or
\* the category it picked when the session category is "all".
C9_SentinelResolved ==
    /\ [](\A i \in 1..Len(jokes) : jokes[i].category \in {"neutral", "chuck"})
    /\ [][Ran("writer")
            => /\ jokes' # <<>>
               /\ category # "all" => Last(jokes').category = category
               /\ category = "all" => Last(jokes').category \in {"neutral", "chuck"}]_vars

C9_Witness ==
    lastNode = "writer" /\ category = "all" /\ jokes # <<>> /\ Last(jokes).category = "chuck"

\* the category each entry selects at the category prompt; "" for an entry
\* that is not an integer of 0..2
Selected(line) ==
    CASE line = <<"0">> -> "neutral"
      [] line = <<"1">> -> "chuck"
      [] line = <<" ", "2">> -> "all"
      [] OTHER -> ""

\* the step taken is a read of the category prompt
CategoryRead == next = "update_category" /\ <<catLog, step>>' # <<catLog, step>>

\* C10: an entry that is not an integer of 0..2 is rejected with an error
\* message, leaves the workflow state unchanged and is followed by another
\* read; the first valid entry i completes the step and sets category to the
\* i-th of neutral, chuck, all.  After x and 5, the entry 1 sets "chuck".
C10_CategoryRetry ==
    /\ [][CategoryRead =>
            IF Selected(lastLine') = ""
            THEN /\ state' = state
                 /\ next' = "update_category" /\ status' = "running" /\ step' = step
                 /\ catLog' = Append(catLog, lastLine')
                 /\ printed' \in {"Please enter a number.", "Invalid selection."}
            ELSE /\ Ran("update_category")
                 /\ category' = Selected(lastLine')
                 /\ next' = "show_menu"
                 /\ <<jokes', jokes_choice', language', quit'>>
                        = <<jokes, jokes_choice, language, quit>>]_vars
    /\ [][(CategoryRead /\ catLog = << <<"x">>, <<"5">> >> /\ lastLine' = <<"1">>)
            => (Ran("update_category") /\ category' = "chuck")]_vars

C10_Witness ==
    /\ lastNode = "update_category" /\ next = "show_menu"
    /\ catLog = << <<"x">>, <<"5">> >> /\ lastLine = <<"1">> /\ category = "chuck"

\* C11: category is "neutral", "chuck" or "all" in every state, is "neutral"
\* before the first step, and changes only in a step that completes
\* update_category.
C11_CategoryInvariant ==
    /\ [](category \in {"neutral", "chuck", "all"})
    /\ [](lastNode = "START" => category = "neutral")
    /\ [][category' # category => Ran("update_category")]_vars

C11_Witness == lastNode = "update_category" /\ category = "all" /\ jokes # <<>>

\* the lines that the menu prompt takes for q
QuitLines == {<<"q">>, <<" ", "Q", " ">>}

\* C12: when the first line entered at the menu is q, the run consists of the
\* menu step and the exit step: after two steps it has halted with quit set,
\* and writer, critic and update_category have not run, so jokes is empty.
C12_QuitAtFirstMenu ==
    (menuLog # <<>> /\ menuLog[1] \in QuitLines)
        => /\ Len(menuLog) = 1 /\ jokes = <<>> /\ fetched = {} /\ catLog = <<>>
           /\ category = "neutral"
           /\ \/ /\ step = 1 /\ lastNode = "show_menu" /\ next = "exit_bot"
                 /\ status = "running" /\ ~quit
              \/ /\ step = 2 /\ lastNode = "exit_bot" /\ next = "END"
                 /\ status = "done" /\ quit

C12_Witness ==
    status = "done" /\ step = 2 /\ menuLog = << <<"q">> >> /\ quit /\ jokes = <<>>

\* C13: quit is FALSE until the exit step has run and TRUE from then on; only
\* the exit step changes it; no step of any kind is taken after the exit
\* step, so it runs at most once and the menu is not entered again.
C13_QuitOnlyByExit ==
    /\ [](quit <=> lastNode = "exit_bot")
    /\ [][quit' # quit => (Ran("exit_bot") /\ quit')]_vars
    /\ [][lastNode # "exit_bot"]_vars
    /\ [](lastNode = "exit_bot" => (next = "END" /\ status = "done"))

C13_Witness == quit /\ lastNode = "exit_bot" /\ jokes # <<>> /\ category = "chuck"

\* C14: a record of the history stays at its position with its text and its
\* category in every later state, and its approved flag never goes from TRUE
\* to FALSE.
C14_HistoryPersists ==
    [][\A i \in 1..Len(jokes) :
          /\ i <= Len(jokes')
          /\ jokes'[i].text = jokes[i].text
          /\ jokes'[i].category = jokes[i].category
          /\ jokes[i].approved => jokes'[i].approved]_vars

C16_EmptyHistoryNoOp ==
    [][(Ran("critic") /\ jokes = <<>>)
         => /\ critic_node(jokes).update = NoUpdate
            /\ state' = state
            /\ printed' = ""]_vars

C16_Witness == lastNode = "critic" /\ jokes = <<>> /\ ~quit /\ step = 1

\* C17: a run executes at most 100 steps of any kind; when 100 steps have run
\* and the exit step is not among them, the run fails with an error and takes
\* no further step: quit is still FALSE and graph.invoke returns no final
\* state, so the summary is not printed.
C17_StepCap ==
    /\ [](step <= 100)
    /\ [][(status = "running" /\ step = 100)
            => (status' = "out_of_steps" /\ step' = step /\ state' = state)]_vars
    /\ [](status = "out_of_steps"
            => (step = 100 /\ lastNode # "exit_bot" /\ ~quit /\ ~invoke_returned))
    /\ [][status # "out_of_steps"]_vars

C17_Witness ==
    status = "out_of_steps" /\ step = 100 /\ lastNode = "writer" /\ ~quit

Reviewed(r) == r.approved = (Len(r.text) >= 40)

\* C18: when the menu step or the exit step is about to run, and when the run
\* has ended through exit, every record of the history carries the critic's
\* verdict for its text; a record without it exists only right after a writer
\* step, with the critic step scheduled.
C18_ReviewedAtDecision ==
    /\ next \in {"show_menu", "exit_bot", "END"}
          => \A i \in 1..Len(jokes) : Reviewed(jokes[i])
    /\ (\E i \in 1..Len(jokes) : ~Reviewed(jokes[i]))
          => (lastNode = "writer" /\ next = "critic" /\ ~Reviewed(Last(jokes)))

C18_Witness ==
    /\ next = "exit_bot" /\ jokes # <<>> /\ Reviewed(jokes[1])
    /\ Len(jokes[1].text) = 39 /\ ~jokes[1].approved

\* C19: the menu step changes only jokes_choice, the writer and critic steps
\* only jokes, the category-update step only category, the exit step only
\* quit; language is "en" throughout.  A writer step leaves category as it
\* is, also when it is "all".
C19_StepFrame ==
    /\ [][/\ Ran("show_menu") => UNCHANGED <<jokes, category, language, quit>>
          /\ (Ran("writer") \/ Ran("critic"))
                => UNCHANGED <<jokes_choice, category, language, quit>>
          /\ Ran("update_category") => UNCHANGED <<jokes, jokes_choice, language, quit>>
          /\ Ran("exit_bot") => UNCHANGED <<jokes, jokes_choice, category, language>>
          /\ step' = step => UNCHANGED state]_vars
    /\ [](language = "en")

C19_Witness ==
    /\ lastNode = "writer" /\ category = "all" /\ step > 4
    /\ jokes # <<>> /\ jokes[1].category = "neutral" /\ ~jokes[1].approved

====
